---- MODULE Spec2Model ----
(***************************************************************************)
(* Session lifecycle of the stock-analysis client: the useStockAnalysis    *)
(* hook (frontend/src/hooks/useStockAnalysis.js) driving one WebSocket per *)
(* analysis through the helpers of frontend/src/utils/websocket.js.        *)
(*                                                                         *)
(* Every handler runs to completion on the single JavaScript event loop,   *)
(* so each handler is one atomic action.  The handlers are written as      *)
(* functions from a snapshot of the whole state (the record S) to the      *)
(* snapshot after the handler; an action applies one of them.              *)
(*                                                                         *)
(* The ticker validation of the form (hooks/useTickerValidation.js,        *)
(* utils/api.js, handleFormSubmit of App) has its own next-state relation, *)
(* ValidationNext, over its own variables.                                 *)
(***************************************************************************)
EXTENDS Integers, Sequences, FiniteSets, TLC

(* ------------------------------ bounds -------------------------------- *)
MaxWs == 2            \* WebSocket objects ever created (accepted submits)
MaxTimers == 2        \* safety timers ever armed (timer ids are never reused)
MaxCloseCalls == 2    \* close() calls counted per WebSocket
MaxValidationTimers == 3  \* debounce timers ever armed by handleTickerChange
MaxRequests == 2      \* existence-check requests ever issued

(* ------------------------- program constants -------------------------- *)
CANCEL_SAFETY_TIMEOUT == 3000

TICKER_VALIDATION == [ MIN_LENGTH |-> 1, MAX_LENGTH |-> 5, DEBOUNCE_DELAY |-> 500 ]

ERROR_MESSAGES ==
  [ EMPTY_TICKER    |-> "Please enter a stock ticker",
    TICKER_LETTERS_ONLY |-> "Ticker should contain only letters",
    TICKER_LENGTH   |-> "Ticker should be 1-5 characters long",
    TICKER_NOT_FOUND |-> "Ticker symbol not found",
    NETWORK_ERROR   |-> "Unable to verify ticker. Please check your connection.",
    WEBSOCKET_ERROR |-> "Connection error. Please ensure the backend server is running.",
    ANALYSIS_ERROR  |-> "An error occurred during analysis" ]

PARSE_ERROR == "Failed to parse server response"

MSG_CONNECTING == "Connecting to server..."
MSG_CANCELLING == "Cancelling analysis..."
MSG_CANCELLED  == "Analysis cancelled successfully"

(* ------------------------------ inputs -------------------------------- *)
\* Ticker strings are sequences of characters, so that trim() and
\* toUpperCase() are computed and not assumed.
Tickers == { <<>>, <<" ">>, <<" ", "a">> }
Providers == { "openai", "gemini" }

\* A frame is what JSON.parse yields for event.data; malformed = TRUE stands
\* for data on which JSON.parse (or the first property read) throws.  An
\* absent field is the falsy value the code's "||" replaces: "" or 0.
Frame(m, e, st, p, msg, r) ==
  [ malformed |-> m, error |-> e, status |-> st,
    progress |-> p, message |-> msg, report |-> r ]

ProgressFrame   == Frame(FALSE, "", "running", 40, "Fetching data", "")
CompletedFrame  == Frame(FALSE, "", "completed", 100, "Done", "# Report")
FailedFrame     == Frame(FALSE, "", "error", 0, "Analysis failed", "")
CancelledFrame  == Frame(FALSE, "", "cancelled", 0, "", "")
ImmediateError  == Frame(FALSE, "Backend unavailable", "completed", 100, "Done", "# Report")
MalformedFrame  == Frame(TRUE, "", "", 0, "", "")
NoFrame         == Frame(FALSE, "", "", 0, "", "")

\* Frames the backend can also send, used where a claim quantifies over
\* what a handler does with them: a running frame without a progress field
\* and a running frame whose percent is outside 0..100.
OmittedProgressFrame == Frame(FALSE, "", "running", 0, "Still working", "")
OutOfRangeFrame      == Frame(FALSE, "", "running", 150, "Fetching data", "")

Frames == { ProgressFrame, CompletedFrame, FailedFrame, CancelledFrame,
            ImmediateError, MalformedFrame, NoFrame }

\* The values typed into the ticker input: empty, two well-formed tickers,
\* one with a digit, and one of six letters.
TypedValues ==
  { <<>>, <<"a">>, <<"a", "b">>, <<"a", "1">>, <<"a", "a", "a", "a", "a", "a">> }

\* setCompanyInfo(null).
NoCompanyInfo == [ null |-> TRUE ]

(* ------------------------------- state -------------------------------- *)
VARIABLES
  isAnalyzing, progress, statusMessage, report, error, isCancelling, \* useState
  wsRef,          \* wsRef.current: 0 is null, else the id of a WebSocket
  mounted,        \* FALSE once the unmount cleanup has run
  nWs,            \* WebSocket objects created so far (ids 1..nWs)
  readyState,     \* per WebSocket: NONE before creation, then the platform's
  args,           \* per WebSocket: ticker and llmProvider captured at creation
  cancelTimeout,  \* per WebSocket: ws.cancelTimeout, 0 when never set
  sent,           \* per WebSocket: frames handed to ws.send, in order
  closeCalls,     \* per WebSocket: number of ws.close() calls
  failing,        \* per WebSocket: close() was called while CONNECTING
  timers,         \* pending setTimeout timers (records id, delay)
  nextTimer,      \* id the next setTimeout returns
  outcome         \* history: the branch that last ended the current session:
                  \* None, Completed (status completed), Failed (error
                  \* frame, status error, handleError), Cancelled (status
                  \* cancelled), Aborted (safety timeout), CancelFailed
                  \* (handleCancel when cancelAnalysis returned false)

\* The useTickerValidation hook and the requests it has in flight.
VARIABLES
  stockTicker, isTickerValid, tickerError, isValidating, companyInfo, \* useState
  validationTimeoutRef, \* validationTimeoutRef.current: 0 is null, else a timer id
  validationTimers,     \* pending debounce timers (records id, delay, value)
  nextValidationTimer,  \* id the next setTimeout of the hook returns
  requests,             \* existence-check requests in flight (records id, ticker)
  nextRequest,          \* id of the next request
  validFor              \* history: the ticker whose valid answer last set
                        \* isTickerValid to true, as a set of at most one
                        \* ticker; empty whenever isTickerValid was set false

hookVars == << isAnalyzing, progress, statusMessage, report, error, isCancelling >>
wsVars == << wsRef, nWs, readyState, args, cancelTimeout, sent, closeCalls, failing >>
vars == << isAnalyzing, progress, statusMessage, report, error, isCancelling,
           wsRef, mounted, nWs, readyState, args, cancelTimeout, sent,
           closeCalls, failing, timers, nextTimer, outcome,
           stockTicker, isTickerValid, tickerError, isValidating, companyInfo,
           validationTimeoutRef, validationTimers, nextValidationTimer,
           requests, nextRequest, validFor >>

sessionVars == << hookVars, wsVars, mounted, timers, nextTimer, outcome >>

validationVars ==
  << stockTicker, isTickerValid, tickerError, isValidating, companyInfo,
     validationTimeoutRef, validationTimers, nextValidationTimer,
     requests, nextRequest, validFor >>

WsIds == 1..MaxWs

\* The snapshot the handlers work on.
S ==
  [ isAnalyzing |-> isAnalyzing, progress |-> progress,
    statusMessage |-> statusMessage, report |-> report, error |-> error,
    isCancelling |-> isCancelling, wsRef |-> wsRef, mounted |-> mounted,
    nWs |-> nWs, readyState |-> readyState, args |-> args,
    cancelTimeout |-> cancelTimeout, sent |-> sent, closeCalls |-> closeCalls,
    failing |-> failing, timers |-> timers, nextTimer |-> nextTimer,
    outcome |-> outcome ]

Apply(n) ==
  /\ isAnalyzing' = n.isAnalyzing
  /\ progress' = n.progress
  /\ statusMessage' = n.statusMessage
  /\ report' = n.report
  /\ error' = n.error
  /\ isCancelling' = n.isCancelling
  /\ wsRef' = n.wsRef
  /\ mounted' = n.mounted
  /\ nWs' = n.nWs
  /\ readyState' = n.readyState
  /\ args' = n.args
  /\ cancelTimeout' = n.cancelTimeout
  /\ sent' = n.sent
  /\ closeCalls' = n.closeCalls
  /\ failing' = n.failing
  /\ timers' = n.timers
  /\ nextTimer' = n.nextTimer
  /\ outcome' = n.outcome

(* ----------------------- string helpers (validation.js) --------------- *)
RECURSIVE trimStart(_)
trimStart(t) == IF t # <<>> /\ Head(t) = " " THEN trimStart(Tail(t)) ELSE t

RECURSIVE trimEnd(_)
trimEnd(t) ==
  IF t # <<>> /\ t[Len(t)] = " " THEN trimEnd(SubSeq(t, 1, Len(t) - 1)) ELSE t

trim(t) == trimEnd(trimStart(t))

toUpperCase(t) ==
  [ k \in 1..Len(t) |-> CASE t[k] = "a" -> "A" [] t[k] = "b" -> "B" [] OTHER -> t[k] ]

\* Variant of normalizeTicker that trims without upper-casing.
normalizeTicker_TrimOnly(ticker) == trim(ticker)

normalizeTicker(ticker) == toUpperCase(trim(ticker))

(* ------------------- platform: timers and WebSocket ------------------- *)
\* React drops state updates of an unmounted component: the setters of
\* useState change the snapshot only while the hook is mounted.  u is a
\* record of the fields set.
SetState(s, u) ==
  IF s.mounted
    THEN [ k \in DOMAIN s |-> IF k \in DOMAIN u THEN u[k] ELSE s[k] ]
    ELSE s

\* setTimeout(cb, delay): a new pending timer whose id is s.nextTimer.
setTimeout(s, delay) ==
  [ s EXCEPT !.timers = @ \cup { [ id |-> s.nextTimer, delay |-> delay ] },
             !.nextTimer = @ + 1 ]

clearTimeout(s, id) == [ s EXCEPT !.timers = { t \in @ : t.id # id } ]

\* ws.send(frame) on an OPEN socket.
wsSend(s, w, frame) == [ s EXCEPT !.sent[w] = Append(@, frame) ]

\* ws.close(): starts the closing handshake of a CONNECTING or OPEN socket
\* and does nothing to a CLOSING or CLOSED one.
wsClose(s, w) ==
  [ s EXCEPT !.closeCalls[w] = @ + 1,
             !.failing[w] = @ \/ s.readyState[w] = "CONNECTING",
             !.readyState[w] = IF @ \in {"CONNECTING", "OPEN"} THEN "CLOSING" ELSE @ ]

\* The payloads handed to JSON.stringify.
RequestMsg(ticker, llmProvider) ==
  [ stock_ticker |-> normalizeTicker(ticker), llm_choice |-> llmProvider ]

CancelMsg == [ action |-> "cancel" ]

(* --------------------- useStockAnalysis handlers ---------------------- *)
\* Variant of handleMessage in which an error field does not pre-empt the
\* status handling: message and progress are folded in before the failure.
handleMessage_NoPreempt(s, data) ==
  LET s1 == SetState(s, [ statusMessage |-> data.message,
                          progress |-> data.progress ])
      s2 == SetState(s1, [ error |-> data.error, isAnalyzing |-> FALSE,
                           outcome |-> "Failed" ])
  IN  IF s2.wsRef # 0 THEN wsClose(s2, s2.wsRef) ELSE s2

\* Variant of handleMessage whose completed branch does not store the report.
handleMessage_DropReport(s, data) ==
  IF data.error # "" THEN
    LET s1 == SetState(s, [ error |-> data.error, isAnalyzing |-> FALSE,
                            outcome |-> "Failed" ])
    IN  IF s1.wsRef # 0 THEN wsClose(s1, s1.wsRef) ELSE s1
  ELSE IF data.status # "" THEN
    LET s1 == SetState(s, [ statusMessage |-> data.message,
                            progress |-> data.progress ])
    IN  CASE data.status = "completed" ->
               LET s2 == SetState(s1, [ isAnalyzing |-> FALSE,
                                        outcome |-> "Completed" ])
               IN  IF s2.wsRef # 0 THEN wsClose(s2, s2.wsRef) ELSE s2
          [] data.status = "error" ->
               LET s2 == SetState(s1,
                           [ error |-> IF data.message # "" THEN data.message
                                       ELSE ERROR_MESSAGES.ANALYSIS_ERROR,
                             isAnalyzing |-> FALSE, outcome |-> "Failed" ])
               IN  IF s2.wsRef # 0 THEN wsClose(s2, s2.wsRef) ELSE s2
          [] data.status = "cancelled" ->
               LET s2 == SetState(s1, [ statusMessage |-> MSG_CANCELLED,
                                        isAnalyzing |-> FALSE,
                                        isCancelling |-> FALSE,
                                        progress |-> 0,
                                        outcome |-> "Cancelled" ])
                   s3 == IF s2.wsRef # 0 /\ s2.cancelTimeout[s2.wsRef] # 0
                           THEN clearTimeout(s2, s2.cancelTimeout[s2.wsRef])
                           ELSE s2
               IN  IF s3.wsRef # 0 THEN wsClose(s3, s3.wsRef) ELSE s3
          [] OTHER -> s1
  ELSE s

handleMessage(s, data) ==
  IF data.error # "" THEN
    LET s1 == SetState(s, [ error |-> data.error, isAnalyzing |-> FALSE,
                            outcome |-> "Failed" ])
    IN  IF s1.wsRef # 0 THEN wsClose(s1, s1.wsRef) ELSE s1
  ELSE IF data.status # "" THEN
    LET s1 == SetState(s, [ statusMessage |-> data.message,
                            progress |-> data.progress ])
    IN  CASE data.status = "completed" ->
               LET s2 == SetState(s1, [ report |-> data.report,
                                        isAnalyzing |-> FALSE,
                                        outcome |-> "Completed" ])
               IN  IF s2.wsRef # 0 THEN wsClose(s2, s2.wsRef) ELSE s2
          [] data.status = "error" ->
               LET s2 == SetState(s1,
                           [ error |-> IF data.message # "" THEN data.message
                                       ELSE ERROR_MESSAGES.ANALYSIS_ERROR,
                             isAnalyzing |-> FALSE, outcome |-> "Failed" ])
               IN  IF s2.wsRef # 0 THEN wsClose(s2, s2.wsRef) ELSE s2
          [] data.status = "cancelled" ->
               LET s2 == SetState(s1, [ statusMessage |-> MSG_CANCELLED,
                                        isAnalyzing |-> FALSE,
                                        isCancelling |-> FALSE,
                                        progress |-> 0,
                                        outcome |-> "Cancelled" ])
                   s3 == IF s2.wsRef # 0 /\ s2.cancelTimeout[s2.wsRef] # 0
                           THEN clearTimeout(s2, s2.cancelTimeout[s2.wsRef])
                           ELSE s2
               IN  IF s3.wsRef # 0 THEN wsClose(s3, s3.wsRef) ELSE s3
          [] OTHER -> s1
  ELSE s

handleError(s, message) ==
  SetState(s, [ error |-> message, isAnalyzing |-> FALSE, outcome |-> "Failed" ])

\* handleClose and handleOpen only log.
handleClose(s) == s

handleOpen(s) == s

(* ------------------------- utils/websocket.js ------------------------- *)
\* new WebSocket(url) with the four handlers attached.
createAnalysisWebSocket(s, ticker, llmProvider) ==
  LET w == s.nWs + 1
  IN  [ s EXCEPT !.nWs = w,
                 !.readyState[w] = "CONNECTING",
                 !.args[w] = [ ticker |-> ticker, llmProvider |-> llmProvider ] ]

onopen(s, w) ==
  handleOpen(wsSend(s, w, RequestMsg(s.args[w].ticker, s.args[w].llmProvider)))

\* Variant of ws.onmessage without the catch branch: a frame that does not
\* parse is dropped.
onmessage_DropMalformed(s, w, data) ==
  IF data.malformed THEN s ELSE handleMessage(s, data)

onmessage(s, w, data) ==
  IF data.malformed THEN handleError(s, PARSE_ERROR) ELSE handleMessage(s, data)

\* Variant of ws.onerror that only logs.
onerror_LogOnly(s, w) == s

onerror(s, w) == handleError(s, ERROR_MESSAGES.WEBSOCKET_ERROR)

\* Variant of ws.onclose that reconnects with the arguments of the channel
\* that closed.
onclose_Reconnect(s, w) ==
  LET s1 == IF s.cancelTimeout[w] # 0 THEN clearTimeout(s, s.cancelTimeout[w])
            ELSE s
  IN  IF s1.nWs < MaxWs
        THEN createAnalysisWebSocket(s1, s1.args[w].ticker, s1.args[w].llmProvider)
        ELSE s1

onclose(s, w) ==
  handleClose(IF s.cancelTimeout[w] # 0 THEN clearTimeout(s, s.cancelTimeout[w])
              ELSE s)

\* Variant of cancelAnalysis that sends the cancel frame and arms no timer.
cancelAnalysis_NoTimer(s, w) ==
  IF w = 0 \/ s.readyState[w] # "OPEN"
    THEN [ ok |-> FALSE, s |-> s ]
    ELSE [ ok |-> TRUE, s |-> wsSend(s, w, CancelMsg) ]

\* Variant of cancelAnalysis without the readiness test: only a missing
\* channel is refused.
cancelAnalysisTry_NoGuard(s, w, sendThrows) ==
  IF w = 0 \/ sendThrows
    THEN [ ok |-> FALSE, s |-> s ]
    ELSE LET s1 == wsSend(s, w, CancelMsg)
             s2 == setTimeout(s1, CANCEL_SAFETY_TIMEOUT)
         IN  [ ok |-> TRUE, s |-> [ s2 EXCEPT !.cancelTimeout[w] = s1.nextTimer ] ]

\* The body of cancelAnalysis: the flag it returns and the state it leaves.
\* sendThrows stands for ws.send throwing inside the try block: the catch
\* returns false, and the setTimeout that follows the send is not reached.
cancelAnalysisTry(s, w, sendThrows) ==
  IF w = 0 \/ s.readyState[w] # "OPEN"
    THEN [ ok |-> FALSE, s |-> s ]
    ELSE IF sendThrows
      THEN [ ok |-> FALSE, s |-> s ]
      ELSE LET s1 == wsSend(s, w, CancelMsg)
               s2 == setTimeout(s1, CANCEL_SAFETY_TIMEOUT)
           IN  [ ok |-> TRUE, s |-> [ s2 EXCEPT !.cancelTimeout[w] = s1.nextTimer ] ]

\* cancelAnalysis as the hook calls it: the platform's send does not throw
\* on an OPEN socket.
cancelAnalysis(s, w) == cancelAnalysisTry(s, w, FALSE)

\* Variant of closeWebSocket that sends the cancel frame without testing
\* readyState.
closeWebSocket_SendAlways(s, w, sendCancel) ==
  IF w = 0 THEN s
  ELSE LET s1 == IF s.cancelTimeout[w] # 0
                   THEN clearTimeout(s, s.cancelTimeout[w]) ELSE s
           s2 == IF sendCancel THEN wsSend(s1, w, CancelMsg) ELSE s1
       IN  IF s2.readyState[w] \in {"OPEN", "CONNECTING"} THEN wsClose(s2, w) ELSE s2

closeWebSocket(s, w, sendCancel) ==
  IF w = 0 THEN s
  ELSE LET s1 == IF s.cancelTimeout[w] # 0
                   THEN clearTimeout(s, s.cancelTimeout[w]) ELSE s
           s2 == IF sendCancel /\ s1.readyState[w] = "OPEN"
                   THEN wsSend(s1, w, CancelMsg) ELSE s1
       IN  IF s2.readyState[w] \in {"OPEN", "CONNECTING"} THEN wsClose(s2, w) ELSE s2

(* --------------- useStockAnalysis: submit, cancel, unmount ------------ *)
\* Variant of handleSubmit that tests the ticker without trimming it.
handleSubmit_NoTrim(s, ticker, llmProvider) ==
  IF ticker = <<>>
    THEN SetState(s, [ error |-> ERROR_MESSAGES.EMPTY_TICKER ])
    ELSE LET s1 == SetState(s, [ error |-> "", report |-> "", progress |-> 0,
                                 statusMessage |-> MSG_CONNECTING,
                                 isAnalyzing |-> TRUE, outcome |-> "None" ])
             s2 == createAnalysisWebSocket(s1, ticker, llmProvider)
         IN  [ s2 EXCEPT !.wsRef = s2.nWs ]

handleSubmit(s, ticker, llmProvider) ==
  IF trim(ticker) = <<>>
    THEN SetState(s, [ error |-> ERROR_MESSAGES.EMPTY_TICKER ])
    ELSE LET s1 == SetState(s, [ error |-> "", report |-> "", progress |-> 0,
                                 statusMessage |-> MSG_CONNECTING,
                                 isAnalyzing |-> TRUE, outcome |-> "None" ])
             s2 == createAnalysisWebSocket(s1, ticker, llmProvider)
         IN  [ s2 EXCEPT !.wsRef = s2.nWs ]

\* Variant of the callback that resets the flags without closing the channel.
safetyTimeoutCallback_NoClose(s) ==
  SetState(s, [ isCancelling |-> FALSE, isAnalyzing |-> FALSE,
                progress |-> 0, outcome |-> "Aborted" ])

\* The callback handleCancel hands to cancelAnalysis.
safetyTimeoutCallback(s) ==
  LET s1 == IF s.wsRef # 0 THEN wsClose(s, s.wsRef) ELSE s
  IN  SetState(s1, [ isCancelling |-> FALSE, isAnalyzing |-> FALSE,
                     progress |-> 0, outcome |-> "Aborted" ])

handleCancel(s) ==
  LET s1 == SetState(s, [ isCancelling |-> TRUE, statusMessage |-> MSG_CANCELLING ])
      r  == cancelAnalysis(s1, s1.wsRef)
  IN  IF r.ok THEN r.s
      ELSE SetState(r.s, [ isCancelling |-> FALSE, isAnalyzing |-> FALSE,
                           progress |-> 0,
                           outcome |-> IF s.wsRef # 0 THEN "CancelFailed"
                                       ELSE s.outcome ])

unmountCleanup(s) ==
  LET s1 == IF s.wsRef # 0 THEN closeWebSocket(s, s.wsRef, TRUE) ELSE s
  IN  [ s1 EXCEPT !.mounted = FALSE ]

(* ------------------------------ actions ------------------------------- *)
Init ==
  /\ isAnalyzing = FALSE
  /\ progress = 0
  /\ statusMessage = ""
  /\ report = ""
  /\ error = ""
  /\ isCancelling = FALSE
  /\ wsRef = 0
  /\ mounted = TRUE
  /\ nWs = 0
  /\ readyState = [ w \in WsIds |-> "NONE" ]
  /\ args = [ w \in WsIds |-> [ ticker |-> <<>>, llmProvider |-> "" ] ]
  /\ cancelTimeout = [ w \in WsIds |-> 0 ]
  /\ sent = [ w \in WsIds |-> <<>> ]
  /\ closeCalls = [ w \in WsIds |-> 0 ]
  /\ failing = [ w \in WsIds |-> FALSE ]
  /\ timers = {}
  /\ nextTimer = 1
  /\ outcome = "None"
  /\ stockTicker = <<>>
  /\ isTickerValid = FALSE
  /\ tickerError = ""
  /\ isValidating = FALSE
  /\ companyInfo = NoCompanyInfo
  /\ validationTimeoutRef = 0
  /\ validationTimers = {}
  /\ nextValidationTimer = 1
  /\ requests = {}
  /\ nextRequest = 1
  /\ validFor = {}

\* The bounds of the model: a step that would exceed one is not taken.
WithinBounds(n) ==
  /\ n.nWs <= MaxWs
  /\ n.nextTimer <= MaxTimers + 1
  /\ \A w \in WsIds : n.closeCalls[w] <= MaxCloseCalls

Do(n) == WithinBounds(n) /\ Apply(n) /\ UNCHANGED validationVars

Submit(ticker, llmProvider) ==
  /\ mounted
  /\ nWs < MaxWs
  /\ Do(handleSubmit(S, ticker, llmProvider))

Cancel ==
  /\ mounted
  /\ Do(handleCancel(S))

Unmount ==
  /\ mounted
  /\ Do(unmountCleanup(S))

\* The connection is established: readyState becomes OPEN, onopen runs.
WsOpen(w) ==
  /\ readyState[w] = "CONNECTING"
  /\ Do(onopen([ S EXCEPT !.readyState[w] = "OPEN" ], w))

\* A frame arrives.  The platform dispatches a message event only while
\* readyState is OPEN; a frame that arrives during the closing handshake
\* is dropped without calling onmessage.
WsMessage(w, data) ==
  /\ readyState[w] \in {"OPEN", "CLOSING"}
  /\ Do(IF readyState[w] = "OPEN" THEN onmessage(S, w, data) ELSE S)

\* The connection fails (refused, or lost): readyState becomes CLOSED, an
\* error event and then a close event are dispatched.
WsError(w) ==
  /\ readyState[w] \in {"CONNECTING", "OPEN"}
  /\ Do(onclose(onerror([ S EXCEPT !.readyState[w] = "CLOSED" ], w), w))

\* The backend closes an open connection: a close event alone.
WsServerClose(w) ==
  /\ readyState[w] = "OPEN"
  /\ Do(onclose([ S EXCEPT !.readyState[w] = "CLOSED" ], w))

\* The closing handshake started by close() ends.  A socket closed while
\* still CONNECTING fails its connection, so an error event comes first.
WsClosed(w) ==
  /\ readyState[w] = "CLOSING"
  /\ LET s0 == [ S EXCEPT !.readyState[w] = "CLOSED" ]
     IN  Do(onclose(IF failing[w] THEN onerror(s0, w) ELSE s0, w))

\* A pending safety timer expires and its callback runs.
TimerFire(t) ==
  /\ t \in timers
  /\ Do(safetyTimeoutCallback([ S EXCEPT !.timers = @ \ {t} ]))

Next ==
  \/ \E ticker \in Tickers, llmProvider \in Providers : Submit(ticker, llmProvider)
  \/ Cancel
  \/ Unmount
  \/ \E w \in WsIds : WsOpen(w)
  \/ \E w \in WsIds, data \in Frames : WsMessage(w, data)
  \/ \E w \in WsIds : WsError(w)
  \/ \E w \in WsIds : WsServerClose(w)
  \/ \E w \in WsIds : WsClosed(w)
  \/ \E t \in timers : TimerFire(t)

Spec == Init /\ [][Next]_vars

\* Fair delivery: a pending timer expires, a closing handshake ends, and a
\* connection attempt or an open connection does not last forever (it opens,
\* fails, or is closed by the backend).  No frame is ever owed.
FairSpec ==
  /\ Spec
  /\ WF_vars(\E t \in timers : TimerFire(t))
  /\ WF_vars(\E w \in WsIds : WsClosed(w))
  /\ WF_vars(\E w \in WsIds : WsOpen(w) \/ WsError(w) \/ WsServerClose(w))

(* ------------------------- utils/validation.js ------------------------ *)
\* TICKER_VALIDATION.PATTERN, /^[A-Z]+$/, over the characters of the model.
PATTERN_test(t) == t # <<>> /\ \A k \in 1..Len(t) : t[k] \in { "A", "B" }

validateTickerFormat(ticker) ==
  LET trimmedTicker == toUpperCase(trim(ticker))
  IN  IF trimmedTicker = <<>>
        THEN [ valid |-> FALSE, error |-> "" ]
      ELSE IF ~PATTERN_test(trimmedTicker)
        THEN [ valid |-> FALSE, error |-> ERROR_MESSAGES.TICKER_LETTERS_ONLY ]
      ELSE IF \/ Len(trimmedTicker) < TICKER_VALIDATION.MIN_LENGTH
              \/ Len(trimmedTicker) > TICKER_VALIDATION.MAX_LENGTH
        THEN [ valid |-> FALSE, error |-> ERROR_MESSAGES.TICKER_LENGTH ]
      ELSE [ valid |-> TRUE, error |-> "" ]

(* ----------------------------- utils/api.js --------------------------- *)
\* What the backend can answer to a request for a ticker: the fetch fails,
\* the ticker is known (the company data names it), or it is not known (no
\* message of its own, so the client's TICKER_NOT_FOUND is shown).
NetworkFailure == [ ok |-> FALSE ]

KnownTicker(body) ==
  [ ok |-> TRUE,
    data |-> [ valid |-> TRUE, message |-> "", company_name |-> body,
               exchange |-> "NASDAQ", country |-> "US", industry |-> "Tech" ] ]

UnknownTicker ==
  [ ok |-> TRUE,
    data |-> [ valid |-> FALSE, message |-> "", company_name |-> <<>>,
               exchange |-> "", country |-> "", industry |-> "" ] ]

Responses(body) == { NetworkFailure, KnownTicker(body), UnknownTicker }

\* validateTickerAPI after the fetch has settled: the result it returns, or
\* the error it throws.
validateTickerAPI(response) ==
  IF ~response.ok
    THEN [ threw |-> TRUE, message |-> ERROR_MESSAGES.NETWORK_ERROR ]
    ELSE LET data == response.data
         IN  [ threw |-> FALSE,
               valid |-> data.valid,
               message |-> IF data.message # "" THEN data.message
                           ELSE IF data.valid THEN ""
                           ELSE ERROR_MESSAGES.TICKER_NOT_FOUND,
               companyName |-> data.company_name,
               exchange |-> data.exchange,
               country |-> data.country,
               industry |-> data.industry ]

(* ---------------------- hooks/useTickerValidation.js ------------------ *)
\* The snapshot the handlers of the validation hook work on.
V ==
  [ stockTicker |-> stockTicker, isTickerValid |-> isTickerValid,
    tickerError |-> tickerError, isValidating |-> isValidating,
    companyInfo |-> companyInfo, validationTimeoutRef |-> validationTimeoutRef,
    validationTimers |-> validationTimers,
    nextValidationTimer |-> nextValidationTimer,
    requests |-> requests, nextRequest |-> nextRequest, validFor |-> validFor,
    mounted |-> mounted ]

ApplyValidation(n) ==
  /\ stockTicker' = n.stockTicker
  /\ isTickerValid' = n.isTickerValid
  /\ tickerError' = n.tickerError
  /\ isValidating' = n.isValidating
  /\ companyInfo' = n.companyInfo
  /\ validationTimeoutRef' = n.validationTimeoutRef
  /\ validationTimers' = n.validationTimers
  /\ nextValidationTimer' = n.nextValidationTimer
  /\ requests' = n.requests
  /\ nextRequest' = n.nextRequest
  /\ validFor' = n.validFor

clearValidationTimeout(v, id) ==
  [ v EXCEPT !.validationTimers = { t \in @ : t.id # id } ]

\* Variant of handleTickerChange that arms the new timer without clearing
\* the previous one.
handleTickerChange_NoClear(v, typed) ==
  LET value == toUpperCase(typed)
      v1 == SetState(v, [ stockTicker |-> value ])
      v3 == SetState(v1, [ companyInfo |-> NoCompanyInfo ])
      formatValidation == validateTickerFormat(value)
  IN  IF ~formatValidation.valid
        THEN SetState(v3, [ tickerError |-> formatValidation.error,
                            isTickerValid |-> FALSE, validFor |-> {} ])
        ELSE LET v4 == SetState(v3, [ tickerError |-> "" ])
             IN  [ v4 EXCEPT
                     !.validationTimers =
                        @ \cup { [ id |-> v4.nextValidationTimer,
                                   delay |-> TICKER_VALIDATION.DEBOUNCE_DELAY,
                                   value |-> value ] },
                     !.validationTimeoutRef = v4.nextValidationTimer,
                     !.nextValidationTimer = @ + 1 ]

handleTickerChange(v, typed) ==
  LET value == toUpperCase(typed)
      v1 == SetState(v, [ stockTicker |-> value ])
      v2 == IF v1.validationTimeoutRef # 0
              THEN clearValidationTimeout(v1, v1.validationTimeoutRef) ELSE v1
      v3 == SetState(v2, [ companyInfo |-> NoCompanyInfo ])
      formatValidation == validateTickerFormat(value)
  IN  IF ~formatValidation.valid
        THEN SetState(v3, [ tickerError |-> formatValidation.error,
                            isTickerValid |-> FALSE, validFor |-> {} ])
        ELSE LET v4 == SetState(v3, [ tickerError |-> "" ])
             IN  [ v4 EXCEPT
                     !.validationTimers =
                        @ \cup { [ id |-> v4.nextValidationTimer,
                                   delay |-> TICKER_VALIDATION.DEBOUNCE_DELAY,
                                   value |-> value ] },
                     !.validationTimeoutRef = v4.nextValidationTimer,
                     !.nextValidationTimer = @ + 1 ]

\* validateWithAPI up to its await: the request is issued.
validateWithAPI(v, ticker) ==
  IF trim(ticker) = <<>> THEN v
  ELSE LET v1 == SetState(v, [ isValidating |-> TRUE ])
       IN  [ v1 EXCEPT
               !.requests = @ \cup { [ id |-> v1.nextRequest, ticker |-> ticker,
                                       body |-> normalizeTicker(ticker) ] },
               !.nextRequest = @ + 1 ]

\* validateWithAPI from its await on, when request r has settled.
validateWithAPIResume(v, r, response) ==
  LET result == validateTickerAPI(response)
      v0 == [ v EXCEPT !.requests = @ \ {r} ]
      v1 == IF result.threw
              THEN SetState(v0, [ tickerError |-> result.message,
                                  isTickerValid |-> FALSE,
                                  companyInfo |-> NoCompanyInfo,
                                  validFor |-> {} ])
            ELSE IF result.valid
              THEN SetState(v0, [ isTickerValid |-> TRUE, tickerError |-> "",
                                  companyInfo |->
                                    [ company_name |-> result.companyName,
                                      exchange |-> result.exchange,
                                      country |-> result.country,
                                      industry |-> result.industry ],
                                  validFor |-> { r.ticker } ])
            ELSE SetState(v0, [ isTickerValid |-> FALSE,
                                tickerError |-> result.message,
                                companyInfo |-> NoCompanyInfo,
                                validFor |-> {} ])
  IN  SetState(v1, [ isValidating |-> FALSE ])

\* The cleanup of the hook's effect.
validationCleanup(v) ==
  IF v.validationTimeoutRef # 0
    THEN clearValidationTimeout(v, v.validationTimeoutRef) ELSE v

(* --------------------------- App: form submit ------------------------- *)
\* handleFormSubmit; submitAnalysis is handleSubmit of useStockAnalysis,
\* which was given tickerValidation.stockTicker as its ticker.
handleFormSubmit(s, v, llmProvider) ==
  IF trim(v.stockTicker) = <<>> THEN s
  ELSE IF ~v.isTickerValid THEN s
  ELSE handleSubmit(s, v.stockTicker, llmProvider)

(* ------------------- actions of the ticker validation ----------------- *)
ValidationWithinBounds(n) ==
  /\ n.nextValidationTimer <= MaxValidationTimers + 1
  /\ n.nextRequest <= MaxRequests + 1

DoValidation(n) ==
  ValidationWithinBounds(n) /\ ApplyValidation(n) /\ UNCHANGED sessionVars

TickerChange(typed) ==
  /\ mounted
  /\ DoValidation(handleTickerChange(V, typed))

\* A pending debounce timer expires and its callback calls validateWithAPI.
ValidationTimerFire(t) ==
  /\ t \in validationTimers
  /\ DoValidation(validateWithAPI([ V EXCEPT !.validationTimers = @ \ {t} ],
                                  t.value))

\* A request in flight settles, in any order.
ValidationResponse(r, response) ==
  /\ r \in requests
  /\ DoValidation(validateWithAPIResume(V, r, response))

FormSubmit(llmProvider) ==
  /\ mounted
  /\ nWs < MaxWs
  /\ Do(handleFormSubmit(S, V, llmProvider))

\* App unmounts: the cleanups of both hooks run.
AppUnmount ==
  /\ mounted
  /\ Apply(unmountCleanup(S))
  /\ ApplyValidation(validationCleanup(V))

ValidationNext ==
  \/ \E typed \in TypedValues : TickerChange(typed)
  \/ \E t \in validationTimers : ValidationTimerFire(t)
  \/ \E r \in requests : \E response \in Responses(r.body) :
       ValidationResponse(r, response)
  \/ \E llmProvider \in Providers : FormSubmit(llmProvider)
  \/ AppUnmount

\* The form and its ticker validation, with the channel of a started
\* analysis left connecting: no handler of the validation reads the session.
ValidationSpec == Init /\ [][ValidationNext]_vars

(* ------------------- session states read off the hook ----------------- *)
\* The hook keeps no state enum; the states of the session are read off its
\* flags and the readyState of the channel wsRef points to.
Idle == wsRef = 0

Connecting == wsRef # 0 /\ isAnalyzing /\ readyState[wsRef] = "CONNECTING"

Running ==
  /\ wsRef # 0 /\ isAnalyzing /\ ~isCancelling
  /\ readyState[wsRef] = "OPEN"
  /\ Len(sent[wsRef]) >= 1 /\ "stock_ticker" \in DOMAIN sent[wsRef][1]

\* The safety timer of the session: the one ws.cancelTimeout refers to.
OwnTimerPending ==
  wsRef # 0 /\ \E t \in timers : t.id = cancelTimeout[wsRef]

Cancelling ==
  /\ wsRef # 0 /\ isAnalyzing /\ isCancelling
  /\ readyState[wsRef] = "OPEN"
  /\ OwnTimerPending

TerminalOutcomes == { "Completed", "Failed", "Cancelled", "Aborted" }

\* The session has ended by one of the four terminal transitions.
Terminal == wsRef # 0 /\ ~isAnalyzing /\ outcome \in TerminalOutcomes

\* A started session that was not abandoned by unmount.
Live == mounted /\ wsRef # 0

\* A step taken by the channel or by a timer, not by the caller.
FrameStep == \E w \in WsIds, data \in Frames : WsMessage(w, data)

TransportStep ==
  \E w \in WsIds : WsOpen(w) \/ WsError(w) \/ WsServerClose(w) \/ WsClosed(w)

TimerStep == \E t \in timers : TimerFire(t)

StartStep ==
  \E ticker \in Tickers, llmProvider \in Providers :
    trim(ticker) # <<>> /\ Submit(ticker, llmProvider)

(* ------------------------------- claims ------------------------------- *)

\* C1: every started session that is not abandoned by unmount eventually
\* ends (isAnalyzing returns to false), under fair delivery of the channel
\* events and of the safety timer, whatever frames the backend sends and
\* whenever the transport errors or closes.
C1_SessionEnds == (Live /\ isAnalyzing) ~> (~isAnalyzing \/ ~mounted)

\* C2: once a session has a terminal outcome, no later frame, transport
\* event or timer firing gives it a different one.
C2_OneOutcome ==
  [][ (Live /\ Terminal /\ (FrameStep \/ TransportStep \/ TimerStep))
      => outcome' = outcome ]_vars

\* C3: over any sequence of frames, cancel() calls, timer firings,
\* transport events and disposal (no second start()), close() is called
\* exactly once on the session's channel: never twice, and not zero times
\* once the session is terminal.  A channel the transport itself has
\* already closed is not held against the claim.
C3_ClosedOnce ==
  nWs = 1 =>
    /\ closeCalls[wsRef] <= 1
    /\ (Live /\ Terminal /\ readyState[wsRef] # "CLOSED") => closeCalls[wsRef] = 1

\* C4: a message delivered on the channel of a session that has reached a
\* terminal state changes none of progress, statusMessage, report, error,
\* isAnalyzing and isCancelling.
C4_NoMessageAfterTerminal ==
  [][ (Live /\ Terminal /\ \E data \in Frames : WsMessage(wsRef, data))
      => UNCHANGED hookVars ]_vars

\* C5: when the session's safety timer (the one ws.cancelTimeout refers to)
\* and a Cancelled frame are both ready in a Cancelling session, the one
\* processed first ends the session (Cancelled for the frame, Aborted for
\* the timer), and the other one, processed after it in that session,
\* changes no field of the hook, sends nothing and calls close() on no
\* channel.
OwnTimerFires == \E t \in timers : t.id = cancelTimeout[wsRef] /\ TimerFire(t)

C5_RaceSecondIsNoOp ==
  [][ /\ (mounted /\ Cancelling /\ WsMessage(wsRef, CancelledFrame))
         => (outcome' = "Cancelled" /\ ~isAnalyzing' /\ ~isCancelling')
      /\ (mounted /\ Cancelling /\ OwnTimerFires)
         => (outcome' = "Aborted" /\ ~isAnalyzing' /\ ~isCancelling')
      /\ ( /\ mounted /\ Terminal
           /\ \/ outcome = "Cancelled" /\ OwnTimerFires
              \/ outcome = "Aborted" /\ WsMessage(wsRef, CancelledFrame) )
         => UNCHANGED << hookVars, outcome, readyState, closeCalls, sent >>
    ]_vars

\* Reached: the timer was processed first (Aborted, the channel closing),
\* and the Cancelled frame of the backend can still arrive.
C5_Witness ==
  /\ mounted /\ Terminal /\ outcome = "Aborted"
  /\ readyState[wsRef] = "CLOSING"
  /\ cancelTimeout[wsRef] # 0
  /\ sent[wsRef] = << RequestMsg(<<" ", "a">>, "openai"), CancelMsg >>

\* C6: cancel() in Running moves the session to Cancelling, sends exactly
\* one cancel frame on the channel and arms exactly one safety timer, with
\* the 3000 ms deadline.
C6_CancelInRunning ==
  [][ (mounted /\ Running /\ Cancel)
      => /\ isAnalyzing' /\ isCancelling'
         /\ sent' = [ sent EXCEPT ![wsRef] = Append(@, CancelMsg) ]
         /\ \E t \in timers' :
              /\ t \notin timers
              /\ timers' = timers \cup {t}
              /\ t.delay = 3000
              /\ cancelTimeout'[wsRef] = t.id
         /\ UNCHANGED << readyState, closeCalls, wsRef >>
    ]_vars

\* Reached: the state right after the first cancel() of a running session.
C6_Witness ==
  /\ mounted /\ Cancelling
  /\ sent[wsRef] = << RequestMsg(<<" ", "a">>, "gemini"), CancelMsg >>
  /\ timers = { [ id |-> 1, delay |-> 3000 ] }
  /\ progress = 40

\* C7: a second cancel() while the session is Cancelling sends no further
\* frame, arms no timer and does not replace the armed one.
C7_CancelIdempotent ==
  [][ (mounted /\ Cancelling /\ Cancel)
      => UNCHANGED << hookVars, sent, timers, cancelTimeout >> ]_vars

\* C8: cancel() in Idle, in Connecting or in a terminal state sends no
\* frame, arms no timer and changes no state of the hook.
C8_CancelNoOp ==
  [][ (mounted /\ (Idle \/ Connecting \/ Terminal) /\ Cancel)
      => UNCHANGED << hookVars, sent, timers, cancelTimeout >> ]_vars

\* C9: start() while the session is Connecting, Running or Cancelling
\* opens no channel and leaves the session, wsRef and its state unchanged.
C9_StartWhileActive ==
  [][ (mounted /\ wsRef # 0 /\ isAnalyzing /\ StartStep)
      => UNCHANGED << hookVars, wsRef, nWs, readyState >> ]_vars

\* C10: a Cancelled frame processed in Cancelling makes the session
\* Cancelled with progress 0, disarms the timer and closes the channel, and
\* the timeout callback never runs for that session afterwards (stated
\* for a hook that has started one session, so that every timer is one
\* this session armed).
C10_CancelledThenNoTimeout ==
  [][ /\ (mounted /\ Cancelling /\ WsMessage(wsRef, CancelledFrame))
         => /\ outcome' = "Cancelled" /\ progress' = 0
            /\ ~isAnalyzing' /\ ~isCancelling'
            /\ ~OwnTimerPending'
            /\ readyState'[wsRef] = "CLOSING" /\ wsRef' = wsRef
      /\ (mounted /\ nWs = 1 /\ Terminal /\ outcome = "Cancelled") => ~TimerStep
    ]_vars

\* C11: when the safety timer fires in a Cancelling session (no Cancelled
\* frame was processed before), the session becomes Aborted: isAnalyzing and
\* isCancelling are false, progress is 0, close() is called on the channel,
\* and no safety timer is pending afterwards (stated for a hook that has
\* started one session, so that every timer is one this session armed).
C11_TimeoutAborts ==
  [][ (mounted /\ nWs = 1 /\ Cancelling /\ TimerStep)
      => /\ outcome' = "Aborted"
         /\ ~isAnalyzing' /\ ~isCancelling' /\ progress' = 0
         /\ readyState'[wsRef] = "CLOSING"
         /\ closeCalls'[wsRef] = closeCalls[wsRef] + 1
         /\ timers' = {}
    ]_vars

\* C12: once cancel() has put a session in Cancelling, the session is
\* eventually finalized (isCancelling and isAnalyzing both false), whatever
\* the backend and the transport do afterwards, under fair delivery of the
\* channel events and of the safety timer (or the hook is unmounted).
C12_CancelBounded ==
  (mounted /\ Cancelling) ~> (~mounted \/ (~isAnalyzing /\ ~isCancelling))

\* C13: a Progress frame (status "running") received while the session is
\* Cancelling is ignored: progress and statusMessage keep their values and
\* the session stays Cancelling.
C13_ProgressIgnoredInCancelling ==
  [][ (mounted /\ Cancelling /\ WsMessage(wsRef, ProgressFrame))
      => UNCHANGED << hookVars, timers, readyState >> ]_vars

\* C14: a transport close or a transport error in Cancelling, before a
\* Cancelled frame was processed, makes the session Aborted: the safety
\* timer is disarmed, isCancelling and isAnalyzing are false, progress is 0.
C14_TransportEndsCancelling ==
  [][ (mounted /\ Cancelling /\ (WsServerClose(wsRef) \/ WsError(wsRef)))
      => /\ ~OwnTimerPending'
         /\ ~isCancelling' /\ ~isAnalyzing' /\ progress' = 0
    ]_vars

\* C15: when the channel closes while the session is Running and no
\* terminal frame was seen, the session becomes Failed: isAnalyzing is false
\* and the error field is set.
C15_UnexpectedClose ==
  [][ (mounted /\ Running /\ WsServerClose(wsRef))
      => (~isAnalyzing' /\ error' # "") ]_vars

\* C16: a transport error event in Connecting or in Running makes the
\* session Failed with the connection message: error is the connection
\* message and isAnalyzing is false.  The handlers involved are total (no
\* operation of ws.onerror or handleError throws), so the failure shows
\* only as state.
C16_TransportErrorFails ==
  [][ (mounted /\ (Connecting \/ Running) /\ WsError(wsRef))
      => /\ error' = ERROR_MESSAGES.WEBSOCKET_ERROR
         /\ ~isAnalyzing'
         /\ outcome' = "Failed"
    ]_vars

\* Reached: a running session (Request sent, progress 40) whose transport
\* failed without close() ever being called.
C16_Witness ==
  /\ mounted /\ wsRef = 1 /\ readyState[1] = "CLOSED" /\ closeCalls[1] = 0
  /\ sent[1] = << RequestMsg(<<" ", "a">>, "openai") >>
  /\ progress = 40 /\ ~isCancelling
  /\ error = ERROR_MESSAGES.WEBSOCKET_ERROR /\ ~isAnalyzing /\ outcome = "Failed"

\* C17: a frame that cannot be decoded, delivered in any state of the
\* session, makes the session Failed with the protocol-error message; the
\* decode failure is caught inside ws.onmessage and shows only as state.
\* Stated on what ws.onmessage returns for the frame in every state in which
\* the channel can deliver it.
C17_MalformedFails ==
  (mounted /\ wsRef # 0 /\ readyState[wsRef] = "OPEN")
  => LET n == onmessage(S, wsRef, MalformedFrame)
     IN  /\ n.error = PARSE_ERROR
         /\ ~n.isAnalyzing
         /\ n.outcome = "Failed"

\* Reached: a running session failed by a malformed frame.
C17_Witness ==
  /\ mounted /\ wsRef = 1 /\ readyState[1] = "OPEN"
  /\ sent[1] = << RequestMsg(<<" ", "a">>, "gemini") >>
  /\ progress = 40 /\ statusMessage = "Fetching data"
  /\ error = PARSE_ERROR /\ ~isAnalyzing /\ ~isCancelling /\ outcome = "Failed"

\* C18: a well-formed frame of no recognized shape (here: neither an error
\* field nor a status field) is treated as a protocol error: processed in a
\* running session it makes the session Failed (isAnalyzing false, error
\* set) and is not ignored.  Stated on what ws.onmessage returns for the
\* frame in every Running state.
C18_UnrecognizedFails ==
  (mounted /\ Running)
  => LET n == onmessage(S, wsRef, NoFrame)
     IN  ~n.isAnalyzing /\ n.error # "" /\ n.outcome = "Failed"

\* C19: a frame with an error field pre-empts all other handling: the
\* session becomes Failed with error equal to the frame's error string and
\* close() is called on the channel, while progress, statusMessage and
\* report are not updated from the frame although it also carries status,
\* progress, message and report.  Stated on what ws.onmessage returns for
\* the frame in every state in which the channel can deliver it.  Second
\* part: a session failed by such a frame before any status frame (its
\* statusMessage is still the one handleSubmit set) has no progress and no
\* report recorded.
C19_ErrorFramePreempts ==
  /\ (mounted /\ wsRef # 0 /\ readyState[wsRef] = "OPEN")
     => LET n == onmessage(S, wsRef, ImmediateError)
        IN  /\ n.error = ImmediateError.error
            /\ ~n.isAnalyzing
            /\ n.outcome = "Failed"
            /\ n.progress = progress
            /\ n.statusMessage = statusMessage
            /\ n.report = report
            /\ n.closeCalls[wsRef] = closeCalls[wsRef] + 1
            /\ n.readyState[wsRef] = "CLOSING"
  /\ (wsRef # 0 /\ error = ImmediateError.error /\ statusMessage = MSG_CONNECTING)
     => (progress = 0 /\ report = "")

\* Reached: the frame arrived right after open; nothing of its progress,
\* message or report was recorded and the channel is closing.
C19_Witness ==
  /\ mounted /\ wsRef = 1 /\ readyState[1] = "CLOSING" /\ closeCalls[1] = 1
  /\ sent[1] = << RequestMsg(<<" ", "a">>, "openai") >>
  /\ error = "Backend unavailable" /\ ~isAnalyzing /\ outcome = "Failed"
  /\ progress = 0 /\ statusMessage = MSG_CONNECTING /\ report = ""

\* C20: the unmount cleanup of a non-terminal session (Connecting, Running
\* or Cancelling) clears every pending safety timer and calls close() on
\* the channel, and when the channel is open a cancel frame is sent first
\* (stated for a hook that has started one session, so that every timer
\* and the only channel belong to the session disposed of).
C20_DisposalCleansUp ==
  [][ (nWs = 1 /\ (Connecting \/ Running \/ Cancelling) /\ Unmount)
      => /\ timers' = {}
         /\ closeCalls'[wsRef] = closeCalls[wsRef] + 1
         /\ readyState'[wsRef] = "CLOSING"
         /\ sent'[wsRef] = IF readyState[wsRef] = "OPEN"
                             THEN Append(sent[wsRef], CancelMsg)
                             ELSE sent[wsRef]
    ]_vars

\* C21: after the unmount cleanup has run on a session, no frame, transport
\* event or timer firing changes a field of the hook, sends a frame or
\* calls close() (stated for a hook that has started one session, so that
\* every channel event and every timer belongs to the session disposed of).
C21_NothingAfterDisposal ==
  [][ (~mounted /\ nWs = 1 /\ wsRef # 0)
      => UNCHANGED << hookVars, sent, closeCalls >> ]_vars

\* C22: whenever the session is in a terminal state, no safety timer armed
\* for it is still pending (stated for a hook that has started one session,
\* so that every pending timer was armed for that session).
C22_NoTimerInTerminal ==
  (mounted /\ nWs = 1 /\ Terminal) => timers = {}

\* C23: only the transitions of the state table occur (stated for a hook
\* that has started one session): Running is entered only from Connecting;
\* Cancelling is left only to Cancelled or Aborted, to Failed on a malformed
\* frame, or by disposal; and Cancelled is entered only from Cancelling.
C23_RunningFromConnecting ==
  (~Running /\ Running') => Connecting

C23_CancellingLeft ==
  (Cancelling /\ ~Cancelling')
  => \/ outcome' \in { "Cancelled", "Aborted" }
     \/ outcome' = "Failed" /\ WsMessage(wsRef, MalformedFrame)
     \/ ~mounted'

C23_CancelledFromCancelling ==
  (outcome # "Cancelled" /\ outcome' = "Cancelled") => Cancelling

C23_OnlyTableTransitions ==
  [][ (mounted /\ nWs = 1)
      => /\ C23_RunningFromConnecting
         /\ C23_CancellingLeft
         /\ C23_CancelledFromCancelling
    ]_vars

\* C24: when a channel opens, exactly one Request frame is sent on it, with
\* stock_ticker the trimmed, upper-cased ticker handed to handleSubmit and
\* llm_choice the provider handed to handleSubmit, and no second Request is
\* ever sent on the same channel.
IsRequest(f) == DOMAIN f = { "stock_ticker", "llm_choice" }

Requests(w) == { k \in 1..Len(sent[w]) : IsRequest(sent[w][k]) }

C24_OneRequestOnOpen ==
  [][ /\ \A ticker \in Tickers, llmProvider \in Providers :
           (trim(ticker) # <<>> /\ Submit(ticker, llmProvider))
           => args'[nWs'] = [ ticker |-> ticker, llmProvider |-> llmProvider ]
      /\ \A w \in WsIds :
           WsOpen(w)
           => /\ sent[w] = <<>>
              /\ sent'[w] = << [ stock_ticker |-> toUpperCase(trim(args[w].ticker)),
                                 llm_choice |-> args[w].llmProvider ] >>
              /\ args'[w] = args[w]
      /\ \A w \in WsIds :
           /\ Cardinality(Requests(w)') <= 1
           /\ (readyState'[w] \in {"NONE", "CONNECTING"} => sent'[w] = <<>>)
      /\ normalizeTicker(<<" ", "a", "b", " ">>) = <<"A", "B">>
    ]_vars

\* Reached: the ticker " a" was submitted with provider gemini, the channel
\* opened, and the one Request on it carries "A"; a cancel frame followed.
C24_Witness ==
  /\ wsRef = 1 /\ readyState[1] = "OPEN"
  /\ args[1] = [ ticker |-> <<" ", "a">>, llmProvider |-> "gemini" ]
  /\ sent[1] = << [ stock_ticker |-> <<"A">>, llm_choice |-> "gemini" ],
                  [ action |-> "cancel" ] >>

\* C25: a Completed frame received in Running makes the session Completed:
\* report is the frame's report, isAnalyzing is false and close() has been
\* called once on the channel; and a Progress frame received in Running
\* leaves the session running with progress equal to the frame's percent.
\* Stated on what ws.onmessage returns for the frames in every Running
\* state.
C25_CompletedInRunning ==
  (mounted /\ Running)
  => /\ LET n == onmessage(S, wsRef, CompletedFrame)
        IN  /\ n.report = CompletedFrame.report
            /\ ~n.isAnalyzing
            /\ n.outcome = "Completed"
            /\ n.closeCalls[wsRef] = 1
            /\ n.readyState[wsRef] = "CLOSING"
     /\ LET m == onmessage(S, wsRef, ProgressFrame)
        IN  /\ m.progress = ProgressFrame.progress
            /\ m.isAnalyzing /\ ~m.isCancelling
            /\ m.readyState[wsRef] = "OPEN"
            /\ m.report = report /\ m.error = error

\* Reached: the only session of the hook, completed by the frame, its
\* channel closing after one close() call.
C25_Witness ==
  /\ mounted /\ wsRef = 1 /\ nWs = 1
  /\ readyState[1] = "CLOSING" /\ closeCalls[1] = 1
  /\ sent[1] = << RequestMsg(<<" ", "a">>, "openai") >>
  /\ report = "# Report" /\ ~isAnalyzing /\ outcome = "Completed"
  /\ progress = 100 /\ statusMessage = "Done" /\ error = ""

\* C26: progress is within 0..100 in every reachable state, whatever frame
\* is processed next, and it is 0 upon entering Cancelled or Aborted.
C26_InRange ==
  /\ progress \in 0..100
  /\ (mounted /\ wsRef # 0 /\ readyState[wsRef] = "OPEN")
     => onmessage(S, wsRef, OutOfRangeFrame).progress \in 0..100

C26_ZeroOnCancelledOrAborted ==
  /\ (mounted /\ wsRef # 0 /\ readyState[wsRef] = "OPEN")
     => LET n == onmessage(S, wsRef, CancelledFrame)
        IN  n.outcome = "Cancelled" /\ n.progress = 0
  /\ (mounted /\ timers # {})
     => LET n == safetyTimeoutCallback(S)
        IN  n.outcome = "Aborted" /\ n.progress = 0

C26_ProgressRange == C26_InRange /\ C26_ZeroOnCancelledOrAborted

\* C27: while the session is Running, a frame that leaves it Running never
\* lowers progress, also when the frame has no progress field.  Stated on
\* what ws.onmessage returns for the running frames in every Running state.
C27_ProgressMonotone ==
  (mounted /\ Running)
  => \A data \in { ProgressFrame, OmittedProgressFrame } :
       LET n == onmessage(S, wsRef, data)
       IN  n.isAnalyzing => n.progress >= progress

\* C28: in every reachable state report is non-empty only if the session
\* is Completed, error is non-empty only if the session is Failed, and the
\* two are never both non-empty.  Stated for a hook that has started one
\* session, leaving aside the empty-ticker message of handleSubmit (which
\* belongs to no session) and a cancel() after the end of the session.
C28_ReportXorError ==
  LET hasError == error \notin { "", ERROR_MESSAGES.EMPTY_TICKER }
  IN  (mounted /\ nWs = 1)
      => /\ (report # "" => outcome \in { "Completed", "CancelFailed" })
         /\ (hasError => outcome \in { "Failed", "CancelFailed" })
         /\ ~(report # "" /\ hasError)

\* C29: the timeout callback runs at most once per session, over any
\* sequence of cancel() calls, frames and transport events: once it has run
\* (the session is Aborted), no safety timer fires again (stated for a hook
\* that has started one session, so that every timer is that session's).
C29_TimeoutAtMostOnce ==
  [][ (mounted /\ nWs = 1 /\ outcome = "Aborted") => ~TimerStep ]_vars

\* C30: at most one cancel frame is sent on a channel per Cancelling
\* episode, counting the frame cancel() sends and the one the unmount
\* cleanup sends.  Stated for a hook that has started one session and had
\* one cancel() accepted (one timer armed), so that a further cancel frame
\* can only come from disposal.
CancelFrames(w) == { k \in 1..Len(sent[w]) : sent[w][k] = CancelMsg }

C30_OneCancelFrame ==
  (nWs = 1 /\ nextTimer <= 2) => Cardinality(CancelFrames(1)) <= 1

\* C31: cancelAnalysis called with no channel, or with a channel that is
\* not open, returns false, sends no frame and arms no timer; and when
\* ws.send throws on an open channel the exception is caught: false is
\* returned and no timer is armed.  Stated on what cancelAnalysis returns
\* in every reachable state, for every channel.
C31_CancelOnNonOpenFails ==
  /\ \A w \in 0..MaxWs :
       (w = 0 \/ readyState[w] # "OPEN")
       => cancelAnalysis(S, w) = [ ok |-> FALSE, s |-> S ]
  /\ \A w \in WsIds :
       readyState[w] = "OPEN"
       => cancelAnalysisTry(S, w, TRUE) = [ ok |-> FALSE, s |-> S ]

\* Reached: handleCancel was called while the channel was still connecting;
\* cancelAnalysis returned false, nothing was sent and no timer was armed.
C31_Witness ==
  /\ mounted /\ wsRef = 1 /\ readyState[1] = "CONNECTING"
  /\ outcome = "CancelFailed"
  /\ sent[1] = <<>> /\ timers = {} /\ nextTimer = 1 /\ cancelTimeout[1] = 0

\* C32: there is no automatic retry or reconnect.  A channel is created
\* only by a handleSubmit call that passes the empty-ticker test, each such
\* call creates exactly one channel, in CONNECTING, and makes it the
\* session's, and no frame, transport event, timer firing, cancel() or
\* unmount creates a channel.  Hence the number of channels ever opened
\* (nWs) is the number of accepted start() calls.
C32_NoReconnect ==
  [][ /\ ( \/ nWs' # nWs
           \/ \E w \in WsIds : readyState[w] = "NONE" /\ readyState'[w] # "NONE" )
         => StartStep
      /\ StartStep
         => /\ nWs' = nWs + 1
            /\ readyState[nWs'] = "NONE" /\ readyState'[nWs'] = "CONNECTING"
            /\ wsRef' = nWs'
            /\ \A w \in WsIds \ {nWs'} : readyState'[w] = readyState[w]
      /\ (\E ticker \in Tickers, llmProvider \in Providers :
            trim(ticker) = <<>> /\ Submit(ticker, llmProvider))
         => (nWs' = nWs /\ readyState' = readyState)
    ]_vars

\* Reached: the only channel failed and closed after a running session, the
\* session is Failed, and no second channel exists.
C32_Witness ==
  /\ mounted /\ nWs = 1 /\ wsRef = 1
  /\ readyState = [ w \in WsIds |-> IF w = 1 THEN "CLOSED" ELSE "NONE" ]
  /\ sent[1] = << RequestMsg(<<" ", "a">>, "openai") >>
  /\ outcome = "Failed" /\ ~isAnalyzing /\ error = ERROR_MESSAGES.WEBSOCKET_ERROR

\* C33: a start() accepted after a terminal state begins the new session
\* from a clean state: right after it error and report are empty, progress
\* is 0, isAnalyzing is true, isCancelling is false, and no safety timer of
\* the earlier session is pending.
C33_FreshStart ==
  [][ (mounted /\ Terminal /\ StartStep)
      => /\ error' = "" /\ report' = "" /\ progress' = 0
         /\ isAnalyzing' /\ ~isCancelling'
         /\ timers' = {}
    ]_vars

\* The parts of C33 taken apart: the fields handleSubmit sets, the flag it
\* does not set, and the timers it does not clear.
C33_FieldsReset ==
  [][ (mounted /\ Terminal /\ StartStep)
      => (error' = "" /\ report' = "" /\ progress' = 0 /\ isAnalyzing') ]_vars

C33_CancellingReset ==
  [][ (mounted /\ Terminal /\ StartStep) => ~isCancelling' ]_vars

C33_NoOldTimer ==
  [][ (mounted /\ Terminal /\ StartStep) => timers' = {} ]_vars

\* C35: after the first session has ended with close() called on its
\* channel and handleSubmit has created a second session, no message, error
\* event, close event or safety timer of the first channel changes a field
\* of the hook or the state of the second channel, or calls close() on it.
EarlierChannelEvent ==
  \/ \E data \in Frames : WsMessage(1, data)
  \/ WsError(1) \/ WsServerClose(1) \/ WsClosed(1)
  \/ \E t \in timers : t.id = cancelTimeout[1] /\ TimerFire(t)

C35_SessionsIsolated ==
  [][ (mounted /\ wsRef = 2 /\ closeCalls[1] >= 1 /\ EarlierChannelEvent)
      => /\ UNCHANGED hookVars
         /\ closeCalls'[2] = closeCalls[2]
         /\ readyState'[2] = readyState[2]
    ]_vars

\* C36: isCancelling is true only if isAnalyzing is true.  Stated on the
\* paths the claim names: whatever frame, transport event or timer firing
\* is processed while the session is Cancelling, the state it leaves does
\* not have isCancelling true with isAnalyzing false.
C36_CancellingImpliesAnalyzing ==
  [][ (mounted /\ Cancelling /\ (FrameStep \/ TransportStep \/ TimerStep))
      => (isCancelling' => isAnalyzing') ]_vars

\* The same as a plain invariant over every reachable state.
C36_Everywhere == isCancelling => isAnalyzing

\* C37: on every channel the Request frame is the first frame the client
\* sends: whatever was sent on a channel starts with the Request, and
\* neither cancelAnalysis nor closeWebSocket with sendCancel, called on any
\* channel in any reachable state, puts a cancel frame on a channel on
\* which no Request was sent.
RequestFirst(sentOnW) == sentOnW # <<>> => IsRequest(sentOnW[1])

C37_RequestFirst ==
  \A w \in WsIds :
    /\ RequestFirst(sent[w])
    /\ RequestFirst(cancelAnalysis(S, w).s.sent[w])
    /\ RequestFirst(closeWebSocket(S, w, TRUE).sent[w])

\* Reached: cancel() sent a cancel frame on the first channel, after its
\* Request; the second channel was disposed of by the unmount cleanup while
\* still connecting, and nothing was sent on it.
C37_Witness ==
  /\ ~mounted /\ nWs = 2 /\ wsRef = 2
  /\ sent[1] = << RequestMsg(<<" ", "a">>, "gemini"), CancelMsg >>
  /\ sent[2] = <<>> /\ closeCalls[2] = 1 /\ readyState[2] = "CLOSING"

\* C38: handleSubmit called with an empty or whitespace-only ticker sets
\* error to the empty-ticker message and does nothing else: no channel is
\* created, and isAnalyzing, progress, statusMessage, report, isCancelling,
\* the channel reference, the channels and the timers are as before.
\* Stated on what handleSubmit returns in every reachable state of a
\* mounted hook.
BlankTickers == { <<>>, <<" ">>, <<" ", " ">> }

C38_EmptyTickerOnlySetsError ==
  mounted =>
    \A ticker \in BlankTickers, llmProvider \in Providers :
      handleSubmit(S, ticker, llmProvider)
        = [ S EXCEPT !.error = ERROR_MESSAGES.EMPTY_TICKER ]

\* Reached: handleSubmit was called with a blank ticker during a running
\* session; the session goes on with the empty-ticker message shown.
C38_Witness ==
  /\ mounted /\ Running /\ nWs = 1 /\ progress = 40
  /\ error = ERROR_MESSAGES.EMPTY_TICKER
  /\ report = "" /\ statusMessage = "Fetching data"

\* C34: an analysis is started only for an already-validated ticker:
\* whenever handleFormSubmit calls handleSubmit, the existence check has
\* answered valid for the value stockTicker has at that moment; and
\* isTickerValid being true always refers to the current stockTicker.
FormSubmitStarts ==
  \E llmProvider \in Providers : FormSubmit(llmProvider) /\ nWs' = nWs + 1

C34_StartOnlyValidated ==
  [][ FormSubmitStarts => validFor = { stockTicker } ]_vars

C34_ValidRefersToCurrent ==
  (mounted /\ isTickerValid) => validFor = { stockTicker }

\* C39: ticker validation is debounced.  At most one validation timer is
\* pending at any time; every handleTickerChange cancels the timer of the
\* previous change (no timer pending before the change is pending after
\* it), and so does the cleanup at unmount; and a request is issued only by
\* a firing timer, for a value that passed the format check and is still
\* the current stockTicker (no change occurred before the timer fired).
C39_Debounced ==
  [][ /\ Cardinality(validationTimers') <= 1
      /\ (\E typed \in TypedValues : TickerChange(typed))
         => validationTimers \cap validationTimers' = {}
      /\ AppUnmount => validationTimers' = {}
      /\ \A r \in requests' \ requests :
           /\ validateTickerFormat(r.ticker).valid
           /\ r.ticker = stockTicker
           /\ \E t \in validationTimers :
                t.value = r.ticker /\ ValidationTimerFire(t)
    ]_vars

\* Reached: "a" was typed and then "ab" before the first timer fired; the
\* first timer was cancelled, the second fired, and the one request issued
\* is for AB.
C39_Witness ==
  /\ mounted /\ stockTicker = <<"A", "B">>
  /\ nextValidationTimer = 3 /\ validationTimers = {}
  /\ requests = { [ id |-> 1, ticker |-> <<"A", "B">>, body |-> <<"A", "B">> ] }
  /\ nextRequest = 2 /\ isValidating /\ ~isTickerValid

\* C40: isValidating is true exactly while at least one existence-check
\* request is in flight, and the result shown is that of the most recently
\* issued request: when a request settles while a newer one exists, that
\* changes none of isValidating, isTickerValid, tickerError and companyInfo.
C40_ValidatingWhileInFlight == mounted => (isValidating <=> requests # {})

OlderRequestSettles ==
  \E r \in requests :
    /\ r.id < nextRequest - 1
    /\ \E response \in Responses(r.body) : ValidationResponse(r, response)

C40_OlderDoesNotOverwrite ==
  [][ (mounted /\ OlderRequestSettles)
      => UNCHANGED << isValidating, isTickerValid, tickerError, companyInfo >>
    ]_vars

C40_LatestRequestWins ==
  [][ /\ mounted' => (isValidating' <=> requests' # {})
      /\ (mounted /\ OlderRequestSettles)
         => UNCHANGED << isValidating, isTickerValid, tickerError, companyInfo >>
    ]_vars

====
